---- MODULE Spec2Model ----
(***************************************************************************)
(* Model of the token client of src/src/client/token.js: the TokenAmount   *)
(* codec, the account decoders Token.tokenInfo / Token.accountInfo and the *)
(* instruction builders, and the methods that submit transactions.  An     *)
(* async method runs from one await to the next; a second call can run     *)
(* alongside the first and outlive it.                                     *)
(*                                                                         *)
(* Numbers.  A 64-bit amount does not fit a TLC integer, so a BN (bn.js    *)
(* big number) is modelled by its magnitude: the big-endian sequence of    *)
(* its bytes without leading zero bytes (<<>> is zero).  This is the       *)
(* sequence BN.toArray() returns (except for zero, which gives <<0>>).     *)
(* A Buffer is a sequence of bytes, index 1 being offset 0.                *)
(***************************************************************************)
EXTENDS Integers, Sequences, FiniteSets, TLC

VARIABLES op, args, ret, sent, conf, pc, bg

vars == <<op, args, ret, sent, conf, pc, bg>>

\* ------------------------------------------------------------------ bounds

\* Longest magnitude (in bytes) of an amount handed to the client.
MaxAmountBytes == 9
\* JavaScript numbers 0..MaxNumber are handed to the client as amounts.
MaxNumber == 300
\* Longest account data the RPC endpoint returns.
MaxDataLen == 123
\* Sends repeated after a transport error, at most.
SendRetryLimit == 2
\* Status polls answered null before the time budget is used up.
PollBudget == 3

\* ------------------------------------------------------- program constants

\* BufferLayout.u8: one byte.
U8Span == 1
\* Layout.uint64 (./layout): a blob of 8 bytes.
Uint64Span == 8
\* BufferLayout.nu64: 8 bytes read as two little-endian 32-bit words.
NU64Span == 8
\* Layout.publicKey (./layout): a blob of 32 bytes.
PublicKeySpan == 32

\* --------------------------------------------------------- sequences, bytes

Byte == 0..255

Reverse(s) == [i \in 1..Len(s) |-> s[Len(s) + 1 - i]]

Zeros(n) == [i \in 1..n |-> 0]

RECURSIVE StripLeadingZeros(_)
StripLeadingZeros(s) ==
  IF s = <<>> THEN <<>>
  ELSE IF Head(s) = 0 THEN StripLeadingZeros(Tail(s))
  ELSE s

\* A call's result: a returned value, or a thrown error.
Ok(v) == [ok |-> TRUE, error |-> "", value |-> v]
Throw(e) == [ok |-> FALSE, error |-> e, value |-> <<>>]

\* ------------------------------------------------------------------ bn.js

\* new BN(n) for a JavaScript number n >= 0: the magnitude of n.
RECURSIVE BNFromNumber(_)
BNFromNumber(n) ==
  IF n = 0 THEN <<>> ELSE Append(BNFromNumber(n \div 256), n % 256)

\* BN.toArray(): big-endian bytes, of length max(1, byteLength).
BNToArray(v) == IF v = <<>> THEN <<0>> ELSE v

\* i.toString(16) for a byte i: its hexadecimal digits, without padding.
ToString16(i) == IF i < 16 THEN <<i>> ELSE <<i \div 16, i % 16>>

\* `00${i.toString(16)}`.slice(-2): the last two characters of the padded text.
HexPair(i) ==
  LET t == <<0, 0>> \o ToString16(i)
  IN SubSeq(t, Len(t) - 1, Len(t))

\* [...].join(''): the digits of all the pairs, in order.
RECURSIVE JoinHex(_)
JoinHex(pairs) ==
  IF pairs = <<>> THEN <<>> ELSE Head(pairs) \o JoinHex(Tail(pairs))

RECURSIVE PackHex(_)
PackHex(d) ==
  IF d = <<>> THEN <<>>
  ELSE <<d[1] * 16 + d[2]>> \o PackHex(SubSeq(d, 3, Len(d)))

\* new BN(text, 16): the magnitude of a hexadecimal numeral.
BNFromHex(d) ==
  LET s == StripLeadingZeros(d)
      e == IF Len(s) % 2 = 1 THEN <<0>> \o s ELSE s
  IN StripLeadingZeros(PackHex(e))

\* new BN(bytes) for a Buffer or an array of bytes: big-endian magnitude.
BNFromBytes(b) == StripLeadingZeros(b)

\* ------------------------------------------------------------ TokenAmount

\* new TokenAmount(): zero.
TokenAmountZero == BNFromNumber(0)

\* Faulty variant of toBuffer: an amount of more than 8 bytes is cut to its
\* low 8 bytes instead of failing.
toBufferWrapped(v) ==
  LET b == Reverse(BNToArray(v))
  IN IF Len(b) >= 8 THEN Ok(SubSeq(b, 1, 8))
     ELSE Ok(b \o Zeros(8 - Len(b)))

\* Faulty variant of toBuffer: the zero padding is put before the bytes.
toBufferNoPad(v) ==
  LET b == Reverse(BNToArray(v))
  IN IF Len(b) = 8 THEN Ok(b)
     ELSE IF ~(Len(b) < 8) THEN Throw("TokenAmount too large")
     ELSE Ok(Zeros(8 - Len(b)) \o b)

\* TokenAmount.toBuffer.  A failed assert throws.
toBuffer(v) ==
  LET a == Reverse(BNToArray(v))
      b == a
  IN IF Len(b) = 8 THEN Ok(b)
     ELSE IF ~(Len(b) < 8) THEN Throw("TokenAmount too large")
     ELSE Ok(b \o Zeros(8 - Len(b)))

\* Faulty variant of fromBuffer: the bytes are not reversed.
fromBufferNoReverse(buffer) ==
  IF ~(Len(buffer) = 8) THEN Throw("Invalid buffer length")
  ELSE Ok(BNFromHex(JoinHex([i \in 1..Len(buffer) |-> HexPair(buffer[i])])))

\* TokenAmount.fromBuffer.
fromBuffer(buffer) ==
  IF ~(Len(buffer) = 8) THEN Throw("Invalid buffer length")
  ELSE Ok(BNFromHex(JoinHex([i \in 1..Len(buffer) |->
                                 HexPair(Reverse(buffer)[i])])))

\* ---------------------------------------------------------------- PublicKey

\* new PublicKey(bytes): the key is held as a BN of the bytes given.
PublicKeyFromBytes(b) == BNFromBytes(b)

\* PublicKey.equals: equality of the two numbers.
PublicKeyEquals(a, b) == a = b

\* PublicKey.toBuffer: the 32 big-endian bytes of the key.
PublicKeyToBuffer(k) == Zeros(PublicKeySpan - Len(k)) \o k

\* ------------------------------------------------------------ buffer-layout

Min(a, b) == IF a < b THEN a ELSE b

\* The little-endian bytes of a JavaScript number n >= 0, as writeUInt32LE
\* writes its low and high words.
RECURSIVE LEBytes(_, _)
LEBytes(n, width) ==
  IF width = 0 THEN <<>> ELSE <<n % 256>> \o LEBytes(n \div 256, width - 1)

U8(property) == [property |-> property, kind |-> "u8", span |-> U8Span]
NU64(property) == [property |-> property, kind |-> "nu64", span |-> NU64Span]
\* Layout.uint64 and Layout.publicKey of ./layout: blobs of 8 and 32 bytes.
Uint64(property) == [property |-> property, kind |-> "blob", span |-> Uint64Span]
PublicKeyLayout(property) ==
  [property |-> property, kind |-> "blob", span |-> PublicKeySpan]

\* The bits of a byte sequence, most significant first.
ByteBits(x) == [i \in 1..8 |-> (x \div (2 ^ (8 - i))) % 2]

RECURSIVE BitsOf(_)
BitsOf(bytes) ==
  IF bytes = <<>> THEN <<>> ELSE ByteBits(Head(bytes)) \o BitsOf(Tail(bytes))

\* The magnitude (big-endian bytes, no leading zero) that a bit sequence
\* denotes.
RECURSIVE BytesOfBits(_)
BytesOfBits(bits) ==
  IF bits = <<>> THEN <<>>
  ELSE IF Len(bits) % 8 # 0 THEN BytesOfBits(<<0>> \o bits)
  ELSE LET b == SubSeq(bits, 1, 8)
           v == b[1] * 128 + b[2] * 64 + b[3] * 32 + b[4] * 16
                + b[5] * 8 + b[6] * 4 + b[7] * 2 + b[8]
       IN <<v>> \o BytesOfBits(SubSeq(bits, 9, Len(bits)))

\* A bit sequence plus one.
RECURSIVE BitsInc(_)
BitsInc(bits) ==
  IF bits = <<>> THEN <<1>>
  ELSE IF bits[Len(bits)] = 0 THEN [bits EXCEPT ![Len(bits)] = 1]
  ELSE Append(BitsInc(SubSeq(bits, 1, Len(bits) - 1)), 0)

\* The JavaScript number hi32 * 2^32 + lo32 of NearUInt64.decode, for the
\* magnitude v of the 8 bytes read: a double keeps 53 significant bits, the
\* rest is rounded to the nearest, ties to even.
RoundedInt64(v) ==
  LET bits == StripLeadingZeros(BitsOf(v))
      n == Len(bits)
      kept == SubSeq(bits, 1, 53)
      rest == SubSeq(bits, 54, n)
      up == /\ rest[1] = 1
            /\ \/ \E i \in 2..Len(rest) : rest[i] = 1
               \/ kept[53] = 1
  IN IF n <= 53 THEN v
     ELSE StripLeadingZeros(
            BytesOfBits((IF up THEN BitsInc(kept) ELSE kept) \o Zeros(n - 53)))

\* Layout.decode of one field at an offset.  UInt.decode and NearUInt64.decode
\* read through Buffer.readUIntLE / readUInt32LE, which throw a RangeError
\* outside the buffer; Blob.decode is Buffer.slice, which clamps to the
\* buffer's end and never throws.  The value of a nu64 is the magnitude of
\* the JavaScript number decoded.
FieldDecode(fd, b, offset) ==
  CASE fd.kind = "u8" ->
         IF offset + 1 > Len(b) THEN Throw("RangeError") ELSE Ok(b[offset + 1])
    [] fd.kind = "nu64" ->
         IF offset + 8 > Len(b) THEN Throw("RangeError")
         ELSE Ok(RoundedInt64(
                   BNFromBytes(Reverse(SubSeq(b, offset + 1, offset + 8)))))
    [] fd.kind = "blob" ->
         Ok(SubSeq(b, Min(offset, Len(b)) + 1, Min(offset + fd.span, Len(b))))

\* Structure.decode: the fields in order, each at the offset after the last.
RECURSIVE StructDecodeFrom(_, _, _, _)
StructDecodeFrom(fields, b, offset, dest) ==
  IF fields = <<>> THEN Ok(dest)
  ELSE LET fd == Head(fields)
           r == FieldDecode(fd, b, offset)
       IN IF ~r.ok THEN r
          ELSE StructDecodeFrom(Tail(fields), b, offset + fd.span,
                                dest @@ (fd.property :> r.value))

StructDecode(fields, b) == StructDecodeFrom(fields, b, 0, [x \in {} |-> 0])

\* Structure.span: the sum of the fields' spans.
RECURSIVE StructSpan(_)
StructSpan(fields) ==
  IF fields = <<>> THEN 0 ELSE Head(fields).span + StructSpan(Tail(fields))

\* Layout.encode of one field: the buffer with the field written at offset.
FieldEncode(fd, v, b, offset) ==
  LET write(bytes) ==
        [i \in 1..Len(b) |->
           IF i > offset /\ i <= offset + Len(bytes) THEN bytes[i - offset]
           ELSE b[i]]
  IN CASE fd.kind = "u8" ->
            IF v \notin Byte \/ offset + 1 > Len(b) THEN Throw("RangeError")
            ELSE Ok(write(<<v>>))
       [] fd.kind = "nu64" ->
            IF offset + 8 > Len(b) THEN Throw("RangeError")
            ELSE Ok(write(LEBytes(v, 8)))
       [] fd.kind = "blob" ->
            IF Len(v) # fd.span THEN Throw("TypeError")
            ELSE IF offset + fd.span > Len(b) THEN Throw("RangeError")
            ELSE Ok(write(v))

\* Structure.encode: value is the buffer written and the encoded length.
RECURSIVE StructEncodeFrom(_, _, _, _)
StructEncodeFrom(fields, src, b, offset) ==
  IF fields = <<>> THEN Ok([buffer |-> b, length |-> offset])
  ELSE LET fd == Head(fields)
           r == FieldEncode(fd, src[fd.property], b, offset)
       IN IF ~r.ok THEN r
          ELSE StructEncodeFrom(Tail(fields), src, r.value, offset + fd.span)

StructEncode(fields, src, b) == StructEncodeFrom(fields, src, b, 0)

\* ------------------------------------------------------------------ layouts

\* Faulty variant of TokenInfoLayout: decimals ahead of supply.
TokenInfoLayoutDecimalsFirst ==
  <<U8("state"), U8("decimals"), Uint64("supply")>>

TokenInfoLayout == <<U8("state"), Uint64("supply"), U8("decimals")>>

TokenAccountInfoLayout ==
  <<U8("state"), PublicKeyLayout("token"), PublicKeyLayout("owner"),
    Uint64("amount"), NU64("sourceOption"), PublicKeyLayout("source"),
    Uint64("originalAmount")>>

\* ----------------------------------------------------------------- decoders

\* Faulty variant of tokenOwnerValid: no check.
tokenOwnerUnchecked(self, account) == TRUE

\* The owner check of Token.tokenInfo: the account's owner is the program.
tokenOwnerValid(self, account) ==
  PublicKeyEquals(account.owner, self.programId)

\* Faulty variant of tokenStateValid: no check.
tokenStateUnchecked(info) == TRUE

\* The state check of Token.tokenInfo.
tokenStateValid(info) == ~(info.state # 1)

\* Token.tokenInfo on the result of connection.getAccountInfo(this.token).
tokenInfo(self, rpc) ==
  IF ~rpc.ok THEN rpc
  ELSE IF ~tokenOwnerValid(self, rpc.value) THEN Throw("Invalid token owner")
  ELSE LET d == StructDecode(TokenInfoLayout, rpc.value.data)
       IN IF ~d.ok THEN d
          ELSE IF ~tokenStateValid(d.value)
               THEN Throw("Invalid token account data")
          ELSE LET s == fromBuffer(d.value.supply)
               IN IF ~s.ok THEN s
                  ELSE Ok([d.value EXCEPT !.supply = s.value])

\* Faulty variant of accountOwnerValid: no check.
accountOwnerUnchecked(self, account) == TRUE

\* The owner check of Token.accountInfo.
accountOwnerValid(self, account) ==
  PublicKeyEquals(account.owner, self.programId)

\* Faulty variant of accountStateValid: no check.
accountStateUnchecked(info) == TRUE

\* The state check of Token.accountInfo.
accountStateValid(info) == ~(info.state # 2)

\* Faulty variant of accountSource: originalAmount is always decoded from the
\* bytes of the data.
accountSourceVerbatim(t) ==
  LET o == fromBuffer(t.originalAmount)
  IN IF ~o.ok THEN o
     ELSE Ok([source |-> IF t.sourceOption = BNFromNumber(0) THEN <<"null">>
                         ELSE <<"key", PublicKeyFromBytes(t.source)>>,
              originalAmount |-> o.value])

\* Faulty variant of accountSource: only the low 32 bits of sourceOption are
\* tested.
accountSourceLowWord(t) ==
  IF SubSeq(Zeros(8) \o t.sourceOption, Len(t.sourceOption) + 5,
            Len(t.sourceOption) + 8) = Zeros(4)
  THEN Ok([source |-> <<"null">>, originalAmount |-> TokenAmountZero])
  ELSE LET o == fromBuffer(t.originalAmount)
       IN IF ~o.ok THEN o
          ELSE Ok([source |-> <<"key", PublicKeyFromBytes(t.source)>>,
                   originalAmount |-> o.value])

\* The source and originalAmount of a decoded token account: null and a fresh
\* zero when sourceOption is 0, the decoded fields otherwise.  source is
\* <<"null">> for null and <<"key", k>> for a key.
accountSource(t) ==
  IF t.sourceOption = BNFromNumber(0)
  THEN Ok([source |-> <<"null">>, originalAmount |-> TokenAmountZero])
  ELSE LET o == fromBuffer(t.originalAmount)
       IN IF ~o.ok THEN o
          ELSE Ok([source |-> <<"key", PublicKeyFromBytes(t.source)>>,
                   originalAmount |-> o.value])

\* Faulty variant of accountTokenValid: no check.
accountTokenUnchecked(self, token) == TRUE

\* The token cross-check of Token.accountInfo.
accountTokenValid(self, token) == PublicKeyEquals(token, self.token)

\* Token.accountInfo on the result of connection.getAccountInfo(account).
accountInfo(self, rpc) ==
  IF ~rpc.ok THEN rpc
  ELSE IF ~accountOwnerValid(self, rpc.value)
       THEN Throw("Invalid token account owner")
  ELSE LET d == StructDecode(TokenAccountInfoLayout, rpc.value.data)
       IN IF ~d.ok THEN d
          ELSE IF ~accountStateValid(d.value)
               THEN Throw("Invalid token account data")
          ELSE LET t == d.value
                   token == PublicKeyFromBytes(t.token)
                   owner == PublicKeyFromBytes(t.owner)
                   amount == fromBuffer(t.amount)
                   src == accountSource(t)
               IN IF ~amount.ok THEN amount
                  ELSE IF ~src.ok THEN src
                  ELSE IF ~accountTokenValid(self, token)
                       THEN Throw("Invalid token account token")
                  ELSE Ok([state |-> t.state, token |-> token, owner |-> owner,
                           amount |-> amount.value,
                           sourceOption |-> t.sourceOption,
                           source |-> src.value.source,
                           originalAmount |-> src.value.originalAmount])

\* ----------------------------------------------------- instruction builders

Key(pubkey, isSigner, isWritable) ==
  [pubkey |-> pubkey, isSigner |-> isSigner, isWritable |-> isWritable]

\* The payload layouts the builders declare.
NewTokenDataLayout == <<U8("instruction"), Uint64("supply"), NU64("decimals")>>
NewTokenAccountDataLayout == <<U8("instruction")>>
\* Faulty variant of AmountDataLayout: the fields in the other order.
AmountDataLayoutAmountFirst == <<Uint64("amount"), U8("instruction")>>
AmountDataLayout == <<U8("instruction"), Uint64("amount")>>
SetOwnerDataLayout == <<U8("instruction")>>

\* The NewToken payload of Token.createNewToken: encoded into a buffer of
\* 1024 bytes that is then cut to the encoded length.
NewTokenData(supply, decimals) ==
  LET sb == toBuffer(supply)
  IN IF ~sb.ok THEN sb
     ELSE LET e == StructEncode(NewTokenDataLayout,
                                [instruction |-> 0, supply |-> sb.value,
                                 decimals |-> decimals],
                                Zeros(1024))
          IN IF ~e.ok THEN e
             ELSE Ok(SubSeq(e.value.buffer, 1, e.value.length))

\* The NewTokenAccount payload of Token.newAccount.
NewTokenAccountData ==
  LET e == StructEncode(NewTokenAccountDataLayout, [instruction |-> 1],
                        Zeros(StructSpan(NewTokenAccountDataLayout)))
  IN IF ~e.ok THEN e ELSE Ok(e.value.buffer)

\* The payload of a Transfer (2) or Approve (3) instruction.
AmountData(instruction, amount) ==
  LET ab == toBuffer(amount)
  IN IF ~ab.ok THEN ab
     ELSE LET e == StructEncode(AmountDataLayout,
                                [instruction |-> instruction,
                                 amount |-> ab.value],
                                Zeros(StructSpan(AmountDataLayout)))
          IN IF ~e.ok THEN e ELSE Ok(e.value.buffer)

\* Token.transferInstruction, on the result of getAccountInfo(source).
\* Faulty variant of transferOwnerValid: no check.
transferOwnerUnchecked(owner, info) == TRUE

\* The owner check of Token.transferInstruction.
transferOwnerValid(owner, info) ==
  PublicKeyEquals(owner, info.owner)

\* Faulty variant of transferKeys: never a fourth key.
transferKeysNoSource(owner, source, destination, info) ==
  <<Key(owner, TRUE, FALSE), Key(source, FALSE, TRUE),
    Key(destination, FALSE, TRUE)>>

\* The keys of Token.transferInstruction: a delegate account's transfer names
\* the account it draws on as well.
transferKeys(owner, source, destination, info) ==
  <<Key(owner, TRUE, FALSE), Key(source, FALSE, TRUE),
    Key(destination, FALSE, TRUE)>>
  \o (IF info.source # <<"null">>
      THEN <<Key(info.source[2], FALSE, TRUE)>>
      ELSE <<>>)

transferInstruction(self, owner, source, destination, amount, rpc) ==
  LET info == accountInfo(self, rpc)
  IN IF ~info.ok THEN info
     ELSE IF ~transferOwnerValid(owner, info.value)
          THEN Throw("Account owner mismatch")
     ELSE LET data == AmountData(2, amount)
          IN IF ~data.ok THEN data
             ELSE Ok([keys |-> transferKeys(owner, source, destination, info.value),
                      programId |-> self.programId, data |-> data.value])

\* Token.approveInstruction.
approveInstruction(self, owner, account, delegate, amount) ==
  LET data == AmountData(3, amount)
  IN IF ~data.ok THEN data
     ELSE Ok([keys |-> <<Key(owner, TRUE, FALSE), Key(account, FALSE, TRUE),
                         Key(delegate, FALSE, TRUE)>>,
              programId |-> self.programId, data |-> data.value])

\* Token.revokeInstruction.
revokeInstruction(self, owner, account, delegate) ==
  approveInstruction(self, owner, account, delegate, BNFromNumber(0))

\* Token.setOwnerInstruction.
setOwnerInstruction(self, owner, account, newOwner) ==
  LET e == StructEncode(SetOwnerDataLayout, [instruction |-> 4],
                        Zeros(StructSpan(SetOwnerDataLayout)))
  IN IF ~e.ok THEN e
     ELSE Ok([keys |-> <<Key(owner, TRUE, FALSE), Key(account, FALSE, TRUE),
                         Key(newOwner, FALSE, TRUE)>>,
              programId |-> self.programId, data |-> e.value.buffer])

\* ------------------------------------------------ handlers that submit

\* The signatures sendTransaction answers with, as byte strings.
Signatures == {<<1, 1>>, <<2, 2>>}

\* How a run of sendAndConfirmTransaction can end: confirmed, failed at the
\* send step (no signature), failed on an explicit error status, timed out.
ConfirmOutcomes ==
  {[state |-> "Confirmed", signature |-> s, reason |-> ""] : s \in Signatures}
  \cup {[state |-> "Failed", signature |-> <<>>, reason |-> "transport"]}
  \cup {[state |-> "Failed", signature |-> s, reason |-> "Err"] : s \in Signatures}
  \cup {[state |-> "TimedOut", signature |-> s, reason |-> ""] : s \in Signatures}

\* Faulty variant of sendAndConfirmTransaction: returns a signature of its
\* own making.
sendAndConfirmTransactionOwnSignature(outcome) ==
  IF outcome.state = "Confirmed" THEN Ok(<<0>>) ELSE Throw(outcome.state)

\* sendAndConfirmTransaction: returns the signature of a confirmed
\* transaction, throws otherwise.
sendAndConfirmTransaction(outcome) ==
  IF outcome.state = "Confirmed" THEN Ok(outcome.signature)
  ELSE Throw(outcome.state)

\* The confirmation loop, step by step.  retries counts the sends repeated
\* after a transport error, polls the status polls answered null (one sleep
\* each), statuses keeps the answers of the polls made.
ConfIdle ==
  [state |-> "Idle", title |-> "", retries |-> 0, polls |-> 0,
   signature |-> <<>>, reason |-> "", statuses |-> <<>>]

Submitting(title) == [ConfIdle EXCEPT !.state = "Submitting", !.title = title]

Terminal == {"Confirmed", "Failed", "TimedOut"}

LoopOutcome(c) ==
  [state |-> c.state, signature |-> c.signature, reason |-> c.reason]

\* sendTransaction answered with a signature.
OnSendAccepted(c, signature) ==
  [c EXCEPT !.state = "Pending", !.signature = signature]

\* Faulty variant of OnSendError: the count of retries starts over before it
\* reaches the limit.
OnSendErrorCountWraps(c) ==
  [c EXCEPT !.retries = (@ + 1) % SendRetryLimit]

\* sendTransaction failed with a transport error: sent again after a fixed
\* delay, until the retries are used up.
OnSendError(c) ==
  IF c.retries < SendRetryLimit THEN [c EXCEPT !.retries = @ + 1]
  ELSE [c EXCEPT !.state = "Failed", !.reason = "transport"]

\* Faulty variant of OnStatus: an unresolved status counts as a failure.
OnStatusNullFails(c, status) ==
  IF status = "Ok"
    THEN [c EXCEPT !.state = "Confirmed", !.statuses = Append(@, status)]
    ELSE [c EXCEPT !.state = "Failed", !.reason = "Err",
                   !.statuses = Append(@, status)]

\* getSignatureStatus answered: null (sleep, poll again), {Ok: null} or
\* {Err: reason}.
OnStatus(c, status) ==
  IF status = "null"
    THEN [c EXCEPT !.polls = @ + 1, !.statuses = Append(@, status)]
  ELSE IF status = "Ok"
    THEN [c EXCEPT !.state = "Confirmed", !.statuses = Append(@, status)]
  ELSE [c EXCEPT !.state = "Failed", !.reason = "Err",
                 !.statuses = Append(@, status)]

\* The deadline check ahead of each poll: the budget is used up.
DeadlinePassed(c) == c.polls >= PollBudget

OnDeadline(c) == [c EXCEPT !.state = "TimedOut"]

\* A call in progress awaits an answer (of getAccountInfo, of
\* getMinimumBalanceForRentExemption, of sendAndConfirmTransaction) with the
\* transactions it has handed over so far; a call that ended has its result.
Awaiting(what, submitted) ==
  [await |-> what, ret |-> Ok(<<>>), sent |-> submitted]

Resolved(result, submitted) ==
  [await |-> "none", ret |-> result, sent |-> submitted]

\* Faulty variant of SubmitEach: goes on after a transaction that was not
\* confirmed.
RECURSIVE SubmitEachRegardless(_, _, _)
SubmitEachRegardless(txs, outcomes, done) ==
  IF txs = <<>> THEN Resolved(Ok(<<>>), done)
  ELSE IF outcomes = <<>> THEN Awaiting("confirm", Append(done, Head(txs)))
  ELSE LET r == sendAndConfirmTransaction(Head(outcomes))
       IN IF Len(txs) = 1 THEN Resolved(r, Append(done, Head(txs)))
          ELSE SubmitEachRegardless(Tail(txs), Tail(outcomes),
                                    Append(done, Head(txs)))

\* Transactions awaited one after another: each is handed to
\* sendAndConfirmTransaction only when the ones before it were confirmed.
\* outcomes are the outcomes known so far, in order; with none left for the
\* transaction handed over last, the call awaits it.
RECURSIVE SubmitEach(_, _, _)
SubmitEach(txs, outcomes, done) ==
  IF txs = <<>> THEN Resolved(Ok(<<>>), done)
  ELSE IF outcomes = <<>> THEN Awaiting("confirm", Append(done, Head(txs)))
  ELSE LET r == sendAndConfirmTransaction(Head(outcomes))
       IN IF ~r.ok THEN Resolved(r, Append(done, Head(txs)))
          ELSE IF Len(txs) = 1 THEN Resolved(r, Append(done, Head(txs)))
          ELSE SubmitEach(Tail(txs), Tail(outcomes), Append(done, Head(txs)))

\* connection.getMinimumBalanceForRentExemption(dataLength): the endpoint's
\* answer for that length, or the rejection of the request.
MinimumBalanceForRentExemption(dataLength, answered) ==
  IF answered THEN Ok(<<"rentExemptMinimum", dataLength>>)
  ELSE Throw("getMinimumBalanceForRentExemption failed")

getMinBalanceRentForExemptToken(answered) ==
  MinimumBalanceForRentExemption(StructSpan(TokenInfoLayout), answered)

getMinBalanceRentForExemptTokenAccount(answered) ==
  MinimumBalanceForRentExemption(StructSpan(TokenAccountInfoLayout), answered)

\* SystemProgram.createAccount(...) as a transaction.
CreateAccountTx(title, from, newAccount, lamports, space, programId) ==
  [title |-> title, kind |-> "createAccount", fromPubkey |-> from,
   newAccountPubkey |-> newAccount, lamports |-> lamports, space |-> space,
   programId |-> programId]

\* new Transaction().add(instruction), for the token program.
InstructionTx(title, instruction) ==
  [title |-> title, kind |-> "instruction", keys |-> instruction.keys,
   programId |-> instruction.programId, data |-> instruction.data]

\* The rest of an async method after the transactions it awaits: it goes on
\* to its result when the last one was confirmed.
Then(r, result) ==
  IF r.await # "none" \/ ~r.ret.ok THEN r ELSE Resolved(result, r.sent)

\* Token.newAccount from the answer to its rent request on.
newAccountFunded(self, owner, source, tokenAccount, balanceNeeded, outcomes) ==
  LET create == CreateAccountTx("createAccount", owner, tokenAccount,
                                balanceNeeded.value,
                                StructSpan(TokenAccountInfoLayout),
                                self.programId)
      keys == <<Key(tokenAccount, TRUE, TRUE), Key(owner, FALSE, FALSE),
                Key(self.token, FALSE, FALSE)>>
              \o (IF source # <<"null">>
                  THEN <<Key(source[2], FALSE, FALSE)>> ELSE <<>>)
      init == InstructionTx("init tokenAccount",
                            [keys |-> keys, programId |-> self.programId,
                             data |-> NewTokenAccountData.value])
  IN IF ~balanceNeeded.ok THEN Resolved(balanceNeeded, <<>>)
     ELSE Then(SubmitEach(<<create, init>>, outcomes, <<>>), Ok(tokenAccount))

\* Token.newAccount; tokenAccount is the key of the new Account() it makes,
\* source is <<"null">> or <<"key", k>>.  rents and outcomes are the answers
\* received so far to the rent request and to the transactions.
newAccount(self, owner, source, tokenAccount, rents, outcomes) ==
  IF ~NewTokenAccountData.ok THEN Resolved(NewTokenAccountData, <<>>)
  ELSE IF rents = <<>> THEN Awaiting("rent", <<>>)
  ELSE newAccountFunded(self, owner, source, tokenAccount,
                        getMinBalanceRentForExemptTokenAccount(rents[1]),
                        outcomes)

\* Token.createNewToken from the answer to its rent request on; done are the
\* transactions of its newAccount call.
createNewTokenFunded(owner, token, initialAccount, data, balanceNeeded, outcomes, done) ==
  LET create == CreateAccountTx("createAccount", owner, token.token,
                                balanceNeeded.value, 1 + Len(data),
                                token.programId)
      new == InstructionTx("New tokenAccount",
                           [keys |-> <<Key(token.token, TRUE, FALSE),
                                       Key(initialAccount, FALSE, TRUE)>>,
                            programId |-> token.programId, data |-> data])
  IN IF ~balanceNeeded.ok THEN Resolved(balanceNeeded, done)
     ELSE Then(SubmitEach(<<create, new>>, outcomes, done),
               Ok(<<token, initialAccount>>))

\* Token.createNewToken from the end of its newAccount call (first) on.
createNewTokenAfter(owner, token, initialAccount, first, data, rents, outcomes) ==
  IF first.await # "none" \/ ~first.ret.ok THEN first
  ELSE IF ~data.ok THEN Resolved(data, first.sent)
  ELSE IF Len(rents) < 2 THEN Awaiting("rent", first.sent)
  ELSE createNewTokenFunded(owner, token, initialAccount, data.value,
                            getMinBalanceRentForExemptToken(rents[2]),
                            SubSeq(outcomes, 3, Len(outcomes)), first.sent)

\* Token.createNewToken; tokenAccount and initialAccount are the keys of the
\* two new Account() it makes (the second inside newAccount).
createNewToken(owner, supply, decimals, programId, tokenAccount, initialAccount, rents, outcomes) ==
  createNewTokenAfter(owner, [token |-> tokenAccount, programId |-> programId],
                      initialAccount,
                      newAccount([token |-> tokenAccount, programId |-> programId],
                                 owner, <<"null">>, initialAccount,
                                 SubSeq(rents, 1, Min(1, Len(rents))),
                                 SubSeq(outcomes, 1, Min(2, Len(outcomes)))),
                      NewTokenData(supply, decimals), rents, outcomes)

\* Token.transfer from the instruction built by transferInstruction on.
transferSubmit(i, outcomes) ==
  IF ~i.ok THEN Resolved(i, <<>>)
  ELSE SubmitEach(<<InstructionTx("transfer", i.value)>>, outcomes, <<>>)

\* Token.transfer; reads holds the answer of getAccountInfo once received.
transfer(self, owner, source, destination, amount, reads, outcomes) ==
  IF reads = <<>> THEN Awaiting("getAccountInfo", <<>>)
  ELSE transferSubmit(transferInstruction(self, owner, source, destination,
                                          amount, reads[1]), outcomes)

\* A transaction of one instruction i, submitted under a title; the method
\* resolves to nothing when it is confirmed.
submitInstruction(title, i, outcomes) ==
  IF ~i.ok THEN Resolved(i, <<>>)
  ELSE Then(SubmitEach(<<InstructionTx(title, i.value)>>, outcomes, <<>>),
            Ok(<<>>))

\* Token.approve: resolves to nothing when the transaction is confirmed.
approve(self, owner, account, delegate, amount, outcomes) ==
  submitInstruction("approve",
                    approveInstruction(self, owner, account, delegate, amount),
                    outcomes)

\* Token.revoke.
revoke(self, owner, account, delegate, outcomes) ==
  approve(self, owner, account, delegate, BNFromNumber(0), outcomes)

\* Token.setOwner.
setOwner(self, owner, account, newOwner, outcomes) ==
  submitInstruction("setOwneer",
                    setOwnerInstruction(self, owner, account, newOwner),
                    outcomes)

\* Token.tokenInfo as a call: it awaits getAccountInfo, then checks and
\* decodes what was read.
tokenInfoCall(self, reads) ==
  IF reads = <<>> THEN Awaiting("getAccountInfo", <<>>)
  ELSE Resolved(tokenInfo(self, reads[1]), <<>>)

\* Token.accountInfo as a call.
accountInfoCall(self, reads) ==
  IF reads = <<>> THEN Awaiting("getAccountInfo", <<>>)
  ELSE Resolved(accountInfo(self, reads[1]), <<>>)

\* Token.transferInstruction as a call: it awaits accountInfo.
transferInstructionCall(self, owner, source, destination, amount, reads) ==
  IF reads = <<>> THEN Awaiting("getAccountInfo", <<>>)
  ELSE Resolved(transferInstruction(self, owner, source, destination, amount,
                                    reads[1]), <<>>)

\* A call of an asynchronous method, from the answers it has received so
\* far (a.reads, a.rents, a.outcomes): what it awaits next, or its result.
Run(name, a) ==
  CASE name = "tokenInfo" -> tokenInfoCall(a.self, a.reads)
    [] name = "accountInfo" -> accountInfoCall(a.self, a.reads)
    [] name = "transferInstruction" ->
         transferInstructionCall(a.self, a.owner, a.source, a.destination,
                                 a.amount, a.reads)
    [] name = "newAccount" ->
         newAccount(a.self, a.owner, a.source, a.tokenAccount, a.rents,
                    a.outcomes)
    [] name = "createNewToken" ->
         createNewToken(a.owner, a.supply, a.decimals, a.programId,
                        a.tokenAccount, a.initialAccount, a.rents, a.outcomes)
    [] name = "transfer" ->
         transfer(a.self, a.owner, a.source, a.destination, a.amount,
                  a.reads, a.outcomes)
    [] name = "approve" ->
         approve(a.self, a.owner, a.account, a.delegate, a.amount, a.outcomes)
    [] name = "revoke" ->
         revoke(a.self, a.owner, a.account, a.delegate, a.outcomes)
    [] name = "setOwner" ->
         setOwner(a.self, a.owner, a.account, a.newOwner, a.outcomes)

\* -------------------------------------------------------------------- inputs

\* Keys of every byte shape: all 32 bytes nonzero, and leading zero bytes.
KeySamples == {[i \in 1..32 |-> 1], [i \in 1..32 |-> 2], <<5>>}

ProgramIds == {[i \in 1..32 |-> 200], <<6, 0>>}

Tokens == {[token |-> t, programId |-> p] :
             t \in {[i \in 1..32 |-> 1], <<5>>}, p \in {[i \in 1..32 |-> 200]}}

\* A few amounts for the handlers that take one: 0, 1, 10000, 2^64 - 1, 2^64.
FewAmounts ==
  {BNFromNumber(0), BNFromNumber(1), BNFromNumber(10000),
   [i \in 1..8 |-> 255], <<1>> \o Zeros(8)}

\* Amounts as BN values: the magnitudes of up to MaxAmountBytes bytes whose two
\* low bytes range over LowByteSamples and whose other bytes are 0 or 255
\* (2^64 - 1 among them), and the few amounts above.
LowByteSamples == {0, 1, 16, 255}

AmountMagnitudes ==
  {StripLeadingZeros(h \o l) :
     h \in [1..(MaxAmountBytes - 2) -> {0, 255}], l \in [1..2 -> LowByteSamples]}
  \cup FewAmounts

\* Amounts given as JavaScript numbers.
AmountNumbers == (0..MaxNumber) \cup {10000, 65535, 65536, 16777216, 2147483647}

\* Buffers handed to fromBuffer: of 0 to MaxAmountBytes bytes, each 0 or 255,
\* and the 8-byte buffers over three byte values.
BufferSamples ==
  UNION {[1..n -> {0, 255}] : n \in 0..MaxAmountBytes}
  \cup [1..8 -> {0, 1, 255}]
  \cup {<<16, 39, 0, 0, 0, 0, 0, 0>>, <<123, 0, 0, 0, 0, 0, 0, 0>>}

\* The 8 bytes of an amount field in account data.
AmountFieldSamples == {Zeros(8), <<16, 39, 0, 0, 0, 0, 0, 0>>, [i \in 1..8 |-> 255]}

\* The 8 bytes of the sourceOption flag: zero, low word set, high word only,
\* and 2^53 + 1, which no double holds.
SourceOptionSamples ==
  {Zeros(8), <<1, 0, 0, 0, 0, 0, 0, 0>>, <<0, 0, 0, 0, 0, 0, 0, 128>>,
   <<1, 0, 0, 0, 0, 0, 32, 0>>}

\* Bytes that follow the layout in account data longer than it.
Trailing == [i \in 1..MaxDataLen |-> 9]

Cut(b, n) == SubSeq(b \o Trailing, 1, n)

\* Account data of n bytes laid out as the token program lays out a token.
TokenData(state, supply, decimals, n) ==
  Cut(<<state>> \o supply \o <<decimals>>, n)

\* Account data of n bytes laid out as the token program lays out an account.
TokenAccountData(f, n) ==
  Cut(<<f.state>> \o PublicKeyToBuffer(f.token) \o PublicKeyToBuffer(f.owner)
        \o f.amount \o f.sourceOption \o PublicKeyToBuffer(f.source)
        \o f.originalAmount, n)

RpcFailed == Throw("getAccountInfo failed")

\* Longest token data the endpoint returns for a token.
MaxTokenDataLen == 12

TokenRpcSamples ==
  {RpcFailed} \cup
  {Ok([owner |-> o, data |-> TokenData(st, su, de, n)]) :
     o \in ProgramIds, st \in {0, 1, 2}, su \in AmountFieldSamples,
     de \in {0, 2, 255}, n \in 0..MaxTokenDataLen}

AccountFields ==
  [state : {0, 1, 2}, token : {[i \in 1..32 |-> 1], <<5>>},
   owner : {[i \in 1..32 |-> 2]},
   amount : {<<16, 39, 0, 0, 0, 0, 0, 0>>},
   sourceOption : SourceOptionSamples,
   source : {[i \in 1..32 |-> 1], <<5>>},
   originalAmount : {<<2, 0, 0, 0, 0, 0, 0, 0>>, [i \in 1..8 |-> 255]}]

AccountRpcSamples ==
  {RpcFailed} \cup
  {Ok([owner |-> o, data |-> TokenAccountData(f, n)]) :
     o \in ProgramIds, f \in AccountFields, n \in 0..MaxDataLen}

\* Account data of the full layout length, for the handlers that read one.
FullAccountRpcSamples ==
  {RpcFailed} \cup
  {Ok([owner |-> o, data |-> TokenAccountData(f, n)]) :
     o \in ProgramIds,
     f \in {g \in AccountFields : g.state \in {1, 2} /\ g.originalAmount[1] = 2},
     n \in {StructSpan(TokenAccountInfoLayout)}}

\* Token data as the 'create new token' test reads it back: the state byte 1,
\* the 8 bytes of the supply and the decimals byte; or the NewToken payload
\* with the state byte in place of its tag.
NewTokenSamples ==
  {<<s, 2, "fields">> : s \in AmountMagnitudes}
  \cup (FewAmounts \X Byte \X {"fields"})
  \cup (FewAmounts \X {0, 2, 255} \X {"payload"})

CreatedTokenData(supply, decimals, form) ==
  IF form = "fields"
    THEN LET sb == toBuffer(supply)
         IN IF ~sb.ok THEN sb ELSE Ok(<<1>> \o sb.value \o <<decimals>>)
    ELSE LET p == NewTokenData(supply, decimals)
         IN IF ~p.ok THEN p ELSE Ok(<<1>> \o Tail(p.value))

\* Outcomes of the transactions of the handlers that submit several: one of
\* each kind, and a second signature.
OutcomeSamples ==
  {o \in ConfirmOutcomes : o.signature # <<2, 2>> \/ o.state = "Confirmed"}

\* The answers not yet received by a call that has just been made.
NoAnswers == [reads |-> <<>>, rents |-> <<>>, outcomes |-> <<>>]

\* The answers getAccountInfo can give to a call.
ReadAnswers(name, a) ==
  IF name = "tokenInfo"
    THEN IF "supply" \in DOMAIN a
           THEN {Ok([owner |-> a.self.programId,
                     data |-> CreatedTokenData(a.supply, a.decimals, a.form).value])}
           ELSE TokenRpcSamples
  ELSE IF name = "accountInfo" THEN AccountRpcSamples
  ELSE FullAccountRpcSamples

\* The outcomes sendAndConfirmTransaction can have for a call.
OutcomeAnswers(name) ==
  IF name \in {"newAccount", "createNewToken"} THEN OutcomeSamples
  ELSE ConfirmOutcomes

\* A second call that runs alongside the first: Token.newAccount, with a
\* rent request answered or not and transactions confirmed or timed out.
OtherSelf == [token |-> <<7>>, programId |-> [i \in 1..32 |-> 200]]

OtherArgs ==
  [self |-> OtherSelf, owner |-> <<8>>, source |-> <<"null">>,
   tokenAccount |-> <<9>>] @@ NoAnswers

OtherOutcomes == {o \in OutcomeSamples : o.state \in {"Confirmed", "TimedOut"}}

NoCall == [op |-> "idle", args |-> <<>>, pc |-> "idle", sent |-> <<>>]

\* ------------------------------------------------------------------- actions

\* The client is idle: no call is in progress.  A call has a name (op), its
\* inputs and the answers it has received (args), a position (pc: the answer
\* it awaits, or done), the transactions it has handed to
\* sendAndConfirmTransaction (sent) and, once done, a result (ret); Return
\* hands the result to the caller.  A synchronous method is done in one step;
\* an asynchronous one goes on when the answer it awaits arrives.  A second
\* call (bg) can start at any time and runs independently of the first.
Init ==
  /\ op = "idle"
  /\ args = <<>>
  /\ ret = Ok(<<>>)
  /\ sent = <<>>
  /\ conf = ConfIdle
  /\ pc = "idle"
  /\ bg = NoCall

\* A call of an asynchronous method has run up to its next await, or to its
\* end: r is what the method has come to.
Reaches(name, a, r) ==
  /\ op' = name
  /\ args' = a
  /\ pc' = IF r.await = "none" THEN "done" ELSE r.await
  /\ ret' = r.ret
  /\ sent' = r.sent
  /\ UNCHANGED <<conf, bg>>

\* A call goes on from the answer it awaited.
Proceed(name, a) == Reaches(name, a, Run(name, a))

\* A synchronous method returns.
Returns(name, a, result) ==
  /\ op' = name
  /\ args' = a
  /\ pc' = "done"
  /\ ret' = result
  /\ sent' = <<>>
  /\ UNCHANGED <<conf, bg>>

ToBuffer ==
  /\ op = "idle"
  /\ \/ \E v \in AmountMagnitudes :
          Returns("toBuffer", [value |-> v, number |-> -1], toBuffer(v))
     \/ \E n \in AmountNumbers :
          Returns("toBuffer", [value |-> BNFromNumber(n), number |-> n],
                  toBuffer(BNFromNumber(n)))

FromBuffer ==
  /\ op = "idle"
  /\ \E b \in BufferSamples :
       Returns("fromBuffer", [buffer |-> b], fromBuffer(b))

TokenInfo ==
  /\ op = "idle"
  /\ \E self \in Tokens :
       Reaches("tokenInfo", [self |-> self] @@ NoAnswers,
               Awaiting("getAccountInfo", <<>>))

\* Token.tokenInfo on the data of a token created with a supply and decimals.
TokenInfoOfNewToken ==
  /\ op = "idle"
  /\ \E self \in Tokens, sd \in NewTokenSamples :
       /\ CreatedTokenData(sd[1], sd[2], sd[3]).ok
       /\ Reaches("tokenInfo",
                  [self |-> self, supply |-> sd[1], decimals |-> sd[2],
                   form |-> sd[3]] @@ NoAnswers,
                  Awaiting("getAccountInfo", <<>>))

AccountInfo ==
  /\ op = "idle"
  /\ \E self \in Tokens :
       Reaches("accountInfo", [self |-> self] @@ NoAnswers,
               Awaiting("getAccountInfo", <<>>))

TransferInstruction ==
  /\ op = "idle"
  /\ \E self \in Tokens, owner \in KeySamples, source \in {<<5>>},
        destination \in {[i \in 1..32 |-> 1]}, amount \in FewAmounts :
       Reaches("transferInstruction",
               [self |-> self, owner |-> owner, source |-> source,
                destination |-> destination, amount |-> amount] @@ NoAnswers,
               Awaiting("getAccountInfo", <<>>))

ApproveInstruction ==
  /\ op = "idle"
  /\ \E self \in Tokens, owner \in KeySamples, account \in {<<5>>},
        delegate \in {[i \in 1..32 |-> 1]}, amount \in FewAmounts :
       Returns("approveInstruction",
               [self |-> self, owner |-> owner, account |-> account,
                delegate |-> delegate, amount |-> amount],
               approveInstruction(self, owner, account, delegate, amount))

RevokeInstruction ==
  /\ op = "idle"
  /\ \E self \in Tokens, owner \in KeySamples, account \in {<<5>>},
        delegate \in {[i \in 1..32 |-> 1]} :
       Returns("revokeInstruction",
               [self |-> self, owner |-> owner, account |-> account,
                delegate |-> delegate],
               revokeInstruction(self, owner, account, delegate))

SetOwnerInstruction ==
  /\ op = "idle"
  /\ \E self \in Tokens, owner \in KeySamples, account \in {<<5>>},
        newOwner \in KeySamples :
       Returns("setOwnerInstruction",
               [self |-> self, owner |-> owner, account |-> account,
                newOwner |-> newOwner],
               setOwnerInstruction(self, owner, account, newOwner))

NewAccount ==
  /\ op = "idle"
  /\ \E self \in Tokens, owner \in {[i \in 1..32 |-> 2]},
        source \in {<<"null">>, <<"key", <<5>>>>}, tokenAccount \in {[i \in 1..32 |-> 1]} :
       Reaches("newAccount",
               [self |-> self, owner |-> owner, source |-> source,
                tokenAccount |-> tokenAccount] @@ NoAnswers,
               newAccount(self, owner, source, tokenAccount, <<>>, <<>>))

CreateNewToken ==
  /\ op = "idle"
  /\ \E owner \in {[i \in 1..32 |-> 2]}, supply \in FewAmounts, decimals \in {0, 2, 255},
        programId \in {[i \in 1..32 |-> 200]}, tokenAccount \in {[i \in 1..32 |-> 1]}, initialAccount \in {<<5>>} :
       Reaches("createNewToken",
               [owner |-> owner, supply |-> supply, decimals |-> decimals,
                programId |-> programId, tokenAccount |-> tokenAccount,
                initialAccount |-> initialAccount] @@ NoAnswers,
               createNewToken(owner, supply, decimals, programId,
                              tokenAccount, initialAccount, <<>>, <<>>))

Transfer ==
  /\ op = "idle"
  /\ \E self \in Tokens, owner \in {[i \in 1..32 |-> 2], <<5>>}, source \in {<<5>>},
        destination \in {[i \in 1..32 |-> 1]}, amount \in FewAmounts :
       Reaches("transfer",
               [self |-> self, owner |-> owner, source |-> source,
                destination |-> destination, amount |-> amount] @@ NoAnswers,
               Awaiting("getAccountInfo", <<>>))

Approve ==
  /\ op = "idle"
  /\ \E self \in Tokens, owner \in {[i \in 1..32 |-> 2]}, account \in {<<5>>},
        delegate \in {[i \in 1..32 |-> 1]}, amount \in FewAmounts :
       Reaches("approve",
               [self |-> self, owner |-> owner, account |-> account,
                delegate |-> delegate, amount |-> amount] @@ NoAnswers,
               approve(self, owner, account, delegate, amount, <<>>))

Revoke ==
  /\ op = "idle"
  /\ \E self \in Tokens, owner \in {[i \in 1..32 |-> 2]}, account \in {<<5>>},
        delegate \in {[i \in 1..32 |-> 1]} :
       Reaches("revoke",
               [self |-> self, owner |-> owner, account |-> account,
                delegate |-> delegate] @@ NoAnswers,
               revoke(self, owner, account, delegate, <<>>))

SetOwner ==
  /\ op = "idle"
  /\ \E self \in Tokens, owner \in {[i \in 1..32 |-> 2]}, account \in {<<5>>},
        newOwner \in KeySamples :
       Reaches("setOwner",
               [self |-> self, owner |-> owner, account |-> account,
                newOwner |-> newOwner] @@ NoAnswers,
               setOwner(self, owner, account, newOwner, <<>>))

\* The answers a call can receive to what it awaits: what getAccountInfo
\* read, whether getMinimumBalanceForRentExemption answered (or rejected),
\* how sendAndConfirmTransaction ended.
Answers(name, a, awaited) ==
  CASE awaited = "getAccountInfo" -> ReadAnswers(name, a)
    [] awaited = "rent" -> BOOLEAN
    [] awaited = "confirm" -> OutcomeAnswers(name)

\* The answers received, with one more.
WithAnswer(a, awaited, answer) ==
  CASE awaited = "getAccountInfo" -> [a EXCEPT !.reads = Append(@, answer)]
    [] awaited = "rent" -> [a EXCEPT !.rents = Append(@, answer)]
    [] awaited = "confirm" -> [a EXCEPT !.outcomes = Append(@, answer)]

\* The answer a call awaits arrives, and the call goes on from its await to
\* the next one or to its end.
Answered ==
  /\ pc \in {"getAccountInfo", "rent", "confirm"}
  /\ \E answer \in Answers(op, args, pc) :
       Proceed(op, WithAnswer(args, pc, answer))

\* The second call after a step that took it to r: once it has ended, its
\* result has reached its caller.
OtherReaches(name, a, r) ==
  IF r.await = "none" THEN NoCall
  ELSE [op |-> name, args |-> a, pc |-> r.await, sent |-> r.sent]

\* A second call starts, whatever the first is doing.
OtherCall ==
  /\ bg.pc = "idle"
  /\ bg' = OtherReaches("newAccount", OtherArgs,
                        newAccount(OtherArgs.self, OtherArgs.owner,
                                   OtherArgs.source, OtherArgs.tokenAccount,
                                   <<>>, <<>>))
  /\ UNCHANGED <<op, args, ret, sent, conf, pc>>

\* The second call receives the answer it awaits.
OtherCallProceeds ==
  /\ bg.pc # "idle"
  /\ \E a \in IF bg.pc = "rent"
               THEN {[bg.args EXCEPT !.rents = Append(@, answered)] :
                       answered \in BOOLEAN}
               ELSE {[bg.args EXCEPT !.outcomes = Append(@, o)] :
                       o \in OtherOutcomes} :
       bg' = OtherReaches(bg.op, a,
                          newAccount(a.self, a.owner, a.source,
                                     a.tokenAccount, a.rents, a.outcomes))
  /\ UNCHANGED <<op, args, ret, sent, conf, pc>>

\* The transactions sendAndConfirmTransaction is called with.
TxTitles ==
  {"createAccount", "init tokenAccount", "New tokenAccount", "transfer",
   "approve", "setOwneer"}

\* sendAndConfirmTransaction is called for a transaction.
StartConfirm ==
  /\ op = "idle"
  /\ \E title \in TxTitles :
       /\ op' = "sendAndConfirmTransaction"
       /\ args' = [title |-> title]
       /\ ret' = Ok(<<>>)
       /\ sent' = <<>>
       /\ conf' = Submitting(title)
       /\ pc' = "loop"
       /\ UNCHANGED bg

\* The loop has moved to conf': its result, once it has one.
LoopMoved ==
  /\ ret' = IF conf'.state \in Terminal
            THEN sendAndConfirmTransaction(LoopOutcome(conf')) ELSE ret
  /\ pc' = IF conf'.state \in Terminal THEN "done" ELSE pc
  /\ UNCHANGED <<op, args, bg>>

\* One sendTransaction call, answered with a signature.
SendAccepted ==
  /\ conf.state = "Submitting"
  /\ \E signature \in Signatures :
       /\ conf' = OnSendAccepted(conf, signature)
       /\ sent' = Append(sent, [title |-> conf.title, answer |-> Ok(signature)])
       /\ LoopMoved

\* One sendTransaction call, failing with a transport error.
SendError ==
  /\ conf.state = "Submitting"
  /\ conf' = OnSendError(conf)
  /\ sent' = Append(sent, [title |-> conf.title,
                         answer |-> Throw("transport error")])
  /\ LoopMoved

\* One getSignatureStatus call, made while the budget lasts.
Poll ==
  /\ conf.state = "Pending"
  /\ ~DeadlinePassed(conf)
  /\ \E status \in {"null", "Ok", "Err"} :
       /\ conf' = OnStatus(conf, status)
       /\ UNCHANGED sent
       /\ LoopMoved

\* The budget is used up with the status still unresolved.
TimeOut ==
  /\ conf.state = "Pending"
  /\ DeadlinePassed(conf)
  /\ conf' = OnDeadline(conf)
  /\ UNCHANGED sent
  /\ LoopMoved

\* The result of a call that is done reaches its caller, whether or not the
\* second call has ended.
Return ==
  /\ pc = "done"
  /\ op' = "idle"
  /\ args' = <<>>
  /\ ret' = Ok(<<>>)
  /\ sent' = <<>>
  /\ conf' = ConfIdle
  /\ pc' = "idle"
  /\ UNCHANGED bg

Next ==
  \/ ToBuffer
  \/ FromBuffer
  \/ TokenInfo
  \/ TokenInfoOfNewToken
  \/ AccountInfo
  \/ TransferInstruction
  \/ ApproveInstruction
  \/ RevokeInstruction
  \/ SetOwnerInstruction
  \/ NewAccount
  \/ CreateNewToken
  \/ Transfer
  \/ Approve
  \/ Revoke
  \/ SetOwner
  \/ Answered
  \/ OtherCall
  \/ OtherCallProceeds
  \/ Return

Spec == Init /\ [][Next]_vars

\* The confirmation loop on its own: a call of sendAndConfirmTransaction runs
\* step by step.  Every RPC call is answered (with a result or a transport
\* error) and every sleep ends, so a step that can be taken is taken.
ConfirmNext ==
  \/ StartConfirm
  \/ SendAccepted
  \/ SendError
  \/ Poll
  \/ TimeOut
  \/ Return

ConfirmSpec == Init /\ [][ConfirmNext]_vars /\ WF_vars(ConfirmNext)

\* ------------------------------------------------------------ specification

\* The call named is done: it has its result.
Did(name) == op = name /\ pc = "done"

\* The bytes b[offset .. offset + n - 1] of a buffer (offsets from 0).
At(b, offset, n) == SubSeq(b, offset + 1, offset + n)

\* The 8 little-endian bytes of a magnitude of at most 8 bytes.
LittleEndian8(v) ==
  [i \in 1..8 |-> IF i <= Len(v) THEN v[Len(v) + 1 - i] ELSE 0]

\* v is the number that 8 little-endian bytes denote.
IsValueOf(v, bytes) ==
  /\ Len(v) <= 8
  /\ v = <<>> \/ v[1] # 0
  /\ LittleEndian8(v) = bytes

\* floor(n / 256^i), without forming 256^i.
RECURSIVE ShiftBytes(_, _)
ShiftBytes(n, i) == IF i = 0 THEN n ELSE ShiftBytes(n \div 256, i - 1)

RpcData == args.reads[1].value.data

\* C1: for every amount v with 0 <= v < 2^64 (a magnitude of at most 8 bytes),
\* toBuffer succeeds and fromBuffer of its result is v again.
C1_RoundTrip ==
  (Did("toBuffer") /\ Len(args.value) <= 8) =>
    /\ ret.ok
    /\ fromBuffer(ret.value).ok
    /\ fromBuffer(ret.value).value = args.value

C1_Witness ==
  /\ Did("toBuffer")
  /\ args.value = [i \in 1..8 |-> 255]
  /\ ret.ok
  /\ fromBuffer(ret.value) = Ok([i \in 1..8 |-> 255])

\* C2: toBuffer throws for every v >= 2^64 (a magnitude of more than 8 bytes);
\* it never returns a value for one.
C2_OverflowFails ==
  (Did("toBuffer") /\ Len(args.value) > 8) =>
    /\ ~ret.ok
    /\ ret.error = "TokenAmount too large"

C2_Witness ==
  /\ Did("toBuffer")
  /\ args.value = <<1, 0, 0, 0, 0, 0, 0, 0, 0>>
  /\ ~ret.ok

\* C3: for every v < 2^64, toBuffer returns exactly 8 bytes, the bytes of the
\* big-endian magnitude in reversed order followed by zeros; for v given as a
\* number, byte i is floor(v / 256^i) mod 256.
C3_LittleEndianBytes ==
  (Did("toBuffer") /\ Len(args.value) <= 8) =>
    /\ ret.ok
    /\ Len(ret.value) = 8
    /\ \A i \in 1..8 :
         ret.value[i] = IF i <= Len(args.value)
                        THEN args.value[Len(args.value) + 1 - i]
                        ELSE 0
    /\ args.number >= 0 =>
         \A i \in 0..7 : ret.value[i + 1] = ShiftBytes(args.number, i) % 256

C3_Witness ==
  /\ Did("toBuffer")
  /\ args.number = 10000
  /\ ret = Ok(<<16, 39, 0, 0, 0, 0, 0, 0>>)

\* C4: tokenInfo fails whenever the first byte of the fetched data is not 1,
\* and accountInfo whenever it is not 2: neither returns a record then.
C4_StateSentinel ==
  /\ (Did("tokenInfo") /\ args.reads[1].ok /\ (RpcData = <<>> \/ RpcData[1] # 1))
       => ~ret.ok
  /\ (Did("accountInfo") /\ args.reads[1].ok /\ (RpcData = <<>> \/ RpcData[1] # 2))
       => ~ret.ok

C4_Witness ==
  /\ Did("accountInfo")
  /\ args.reads[1].ok
  /\ Len(RpcData) = 121
  /\ RpcData[1] = 1
  /\ args.reads[1].value.owner = args.self.programId
  /\ At(RpcData, 1, 32) = PublicKeyToBuffer(args.self.token)
  /\ ret = Throw("Invalid token account data")

\* C5: a token account that decodes with sourceOption = 0 has source null and
\* originalAmount 0, whatever the bytes after the flag; and every returned
\* record with source null has originalAmount 0.
C5_NoSourceZeroOriginal ==
  (Did("accountInfo") /\ ret.ok) =>
    /\ At(RpcData, 73, 8) = Zeros(8) =>
         /\ ret.value.source = <<"null">>
         /\ ret.value.originalAmount = <<>>
    /\ ret.value.source = <<"null">> => ret.value.originalAmount = <<>>

C5_Witness ==
  /\ Did("accountInfo")
  /\ ret.ok
  /\ Len(RpcData) = 121
  /\ At(RpcData, 73, 8) = Zeros(8)
  /\ At(RpcData, 113, 8) = [i \in 1..8 |-> 255]
  /\ ret.value.source = <<"null">>
  /\ ret.value.originalAmount = <<>>

\* C6: a token account that decodes with sourceOption # 0 has source equal to
\* the 32 bytes at offset 81 and originalAmount equal to the little-endian
\* value of the 8 bytes at offset 113.
C6_SourceDecoded ==
  (Did("accountInfo") /\ ret.ok /\ At(RpcData, 73, 8) # Zeros(8)) =>
    /\ Len(RpcData) >= 121
    /\ Len(ret.value.source) = 2
    /\ ret.value.source[1] = "key"
    /\ PublicKeyToBuffer(ret.value.source[2]) = At(RpcData, 81, 32)
    /\ IsValueOf(ret.value.originalAmount, At(RpcData, 113, 8))

C6_Witness ==
  /\ Did("accountInfo")
  /\ ret.ok
  /\ At(RpcData, 73, 8) = <<0, 0, 0, 0, 0, 0, 0, 128>>
  /\ ret.value.source = <<"key", <<5>>>>
  /\ ret.value.originalAmount = <<2>>

\* C7: accountInfo fails whenever the token embedded in the data differs from
\* the Token's key, with the token validation error when nothing else is
\* wrong; a record is returned only when the two are equal.
C7_TokenCrossCheck ==
  (Did("accountInfo") /\ args.reads[1].ok) =>
    /\ (Len(RpcData) >= 33
          /\ At(RpcData, 1, 32) # PublicKeyToBuffer(args.self.token))
         => ~ret.ok
    /\ ret.ok => At(RpcData, 1, 32) = PublicKeyToBuffer(args.self.token)
    /\ (/\ Len(RpcData) >= 121
        /\ RpcData[1] = 2
        /\ args.reads[1].value.owner = args.self.programId
        /\ At(RpcData, 1, 32) # PublicKeyToBuffer(args.self.token))
         => ret = Throw("Invalid token account token")

C7_Witness ==
  /\ Did("accountInfo")
  /\ args.reads[1].ok
  /\ Len(RpcData) = 121
  /\ RpcData[1] = 2
  /\ At(RpcData, 1, 32) = PublicKeyToBuffer(<<5>>)
  /\ args.self.token = [i \in 1..32 |-> 1]
  /\ ret = Throw("Invalid token account token")

\* C8: tokenInfo fails on any data shorter than the TokenInfo layout (10
\* bytes) and accountInfo on any data shorter than the TokenAccountInfo layout
\* (121 bytes).
C8_ShortBufferRejected ==
  /\ (Did("tokenInfo") /\ args.reads[1].ok /\ Len(RpcData) < 10) => ~ret.ok
  /\ (Did("accountInfo") /\ args.reads[1].ok /\ Len(RpcData) < 121) => ~ret.ok

\* C9: tokenInfo and accountInfo fail, with the owner error, whenever the
\* fetched account's owner program is not the Token's programId, whatever
\* the data.
C9_OwnerProgramChecked ==
  /\ (Did("tokenInfo") /\ args.reads[1].ok
        /\ args.reads[1].value.owner # args.self.programId)
       => ret = Throw("Invalid token owner")
  /\ (Did("accountInfo") /\ args.reads[1].ok
        /\ args.reads[1].value.owner # args.self.programId)
       => ret = Throw("Invalid token account owner")

C9_Witness ==
  /\ Did("accountInfo")
  /\ args.reads[1].ok
  /\ args.reads[1].value.owner = <<6, 0>>
  /\ Len(RpcData) = 121
  /\ RpcData[1] = 2
  /\ At(RpcData, 1, 32) = PublicKeyToBuffer(args.self.token)
  /\ ret = Throw("Invalid token account owner")

\* The payloads C10 names.
NewTokenPayload(supply, decimals) ==
  <<0>> \o LittleEndian8(supply) \o <<decimals, 0, 0, 0, 0, 0, 0, 0>>
NewTokenAccountPayload == <<1>>
TransferPayload(amount) == <<2>> \o LittleEndian8(amount)
ApprovePayload(amount) == <<3>> \o LittleEndian8(amount)
SetOwnerPayload == <<4>>

\* The payloads of the token-program instructions among the transactions
\* submitted, in order.
SentPayloads ==
  LET idx == {i \in 1..Len(sent) : sent[i].kind = "instruction"}
      RECURSIVE Collect(_)
      Collect(i) ==
        IF i > Len(sent) THEN <<>>
        ELSE (IF i \in idx THEN <<sent[i].data>> ELSE <<>>) \o Collect(i + 1)
  IN Collect(1)

IsPrefix(a, b) == Len(a) <= Len(b) /\ SubSeq(b, 1, Len(a)) = a

\* C10: every payload built is its tag followed by its fixed fields and
\* nothing else: NewToken 0 + supply + decimals (17 bytes), NewTokenAccount 1,
\* Transfer 2 + amount (9 bytes), Approve 3 + amount (9 bytes), SetOwner 4; no
\* tag is outside 0..4; revoke builds the Approve payload with amount 0.
C10_InstructionPayloads ==
  /\ (Did("transferInstruction") /\ ret.ok)
       => ret.value.data = TransferPayload(args.amount)
  /\ (Did("approveInstruction") /\ ret.ok)
       => ret.value.data = ApprovePayload(args.amount)
  /\ (Did("revokeInstruction"))
       => ret.ok /\ ret.value.data = ApprovePayload(<<>>)
  /\ (Did("setOwnerInstruction"))
       => ret.ok /\ ret.value.data = SetOwnerPayload
  /\ op = "newAccount"
       => IsPrefix(SentPayloads, <<NewTokenAccountPayload>>)
  /\ op = "createNewToken"
       => /\ Len(SentPayloads) <= 2
          /\ Len(SentPayloads) >= 1 => SentPayloads[1] = NewTokenAccountPayload
          /\ Len(SentPayloads) = 2 =>
               /\ SentPayloads[2] = NewTokenPayload(args.supply, args.decimals)
               /\ Len(SentPayloads[2]) = 17
          /\ (pc = "done" /\ ret.ok) => Len(SentPayloads) = 2
  /\ op = "transfer"
       => IsPrefix(SentPayloads, <<TransferPayload(args.amount)>>)
          /\ ((pc = "done" /\ ret.ok) => Len(SentPayloads) = 1)
  /\ op = "approve"
       => IsPrefix(SentPayloads, <<ApprovePayload(args.amount)>>)
          /\ ((pc = "done" /\ ret.ok) => Len(SentPayloads) = 1)
  /\ op = "revoke"
       => IsPrefix(SentPayloads, <<ApprovePayload(<<>>)>>)
          /\ ((pc = "done" /\ ret.ok) => Len(SentPayloads) = 1)
  /\ op = "setOwner"
       => IsPrefix(SentPayloads, <<SetOwnerPayload>>)
          /\ ((pc = "done" /\ ret.ok) => Len(SentPayloads) = 1)
  /\ \A i \in 1..Len(SentPayloads) : SentPayloads[i][1] \in 0..4

C10_Witness ==
  /\ Did("createNewToken")
  /\ ret.ok
  /\ args.supply = <<39, 16>>
  /\ args.decimals = 2
  /\ Len(sent) = 4
  /\ sent[2].data = <<1>>
  /\ sent[4].data = <<0, 16, 39, 0, 0, 0, 0, 0, 0, 2, 0, 0, 0, 0, 0, 0, 0>>

\* C11: for every supply s < 2^64 and every decimals d in 0..255, token data
\* made of the state byte 1, the 8-byte encoding of s and the byte d (or the
\* NewToken payload for (s, d) with its tag replaced by the state byte 1)
\* decodes through Token.tokenInfo to supply s and decimals d.
C11_TokenInfoRoundTrip ==
  (Did("tokenInfo") /\ "supply" \in DOMAIN args) =>
    /\ Len(args.supply) <= 8
    /\ args.decimals \in 0..255
    /\ RpcData[1] = 1
    /\ At(RpcData, 1, 8) = LittleEndian8(args.supply)
    /\ RpcData[10] = args.decimals
    /\ ret.ok
    /\ ret.value.supply = args.supply
    /\ ret.value.decimals = args.decimals

C11_Witness ==
  /\ Did("tokenInfo")
  /\ "supply" \in DOMAIN args
  /\ args.form = "payload"
  /\ args.supply = BNFromNumber(10000)
  /\ args.decimals = 2
  /\ RpcData = <<1, 16, 39, 0, 0, 0, 0, 0, 0, 2, 0, 0, 0, 0, 0, 0, 0>>
  /\ ret.ok
  /\ ret.value.supply = <<39, 16>>
  /\ ret.value.decimals = 2

\* The answers of the status polls made so far are all null.
AllNull(statuses) == \A i \in 1..Len(statuses) : statuses[i] = "null"

Confirming == op = "sendAndConfirmTransaction"

\* C13: whenever a status poll answers {Ok: null} before the budget is used
\* up (on the first poll or after any number of null polls), the loop ends
\* Confirmed and returns exactly the signature sendTransaction answered with.
C13_OkStatusConfirms ==
  (Confirming /\ conf.statuses # <<>>
     /\ conf.statuses[Len(conf.statuses)] = "Ok") =>
    /\ Len(conf.statuses) <= PollBudget
    /\ AllNull(SubSeq(conf.statuses, 1, Len(conf.statuses) - 1))
    /\ conf.state = "Confirmed"
    /\ sent # <<>>
    /\ sent[Len(sent)].answer.ok
    /\ sent[Len(sent)].answer.value \in Signatures
    /\ ret = sent[Len(sent)].answer

C13_Witness ==
  /\ Confirming
  /\ conf.statuses = <<"null", "Ok">>
  /\ conf.state = "Confirmed"
  /\ sent = <<[title |-> "transfer", answer |-> Ok(<<2, 2>>)]>>
  /\ ret = Ok(<<2, 2>>)

\* C14: if every status poll answers null until the budget is used up, the
\* loop ends TimedOut, never Failed and never Confirmed; and it ends Failed
\* after a signature was obtained only when a poll answered an explicit Err.
C14_TimedOutOnlyUnresolved ==
  Confirming =>
    /\ (AllNull(conf.statuses) /\ Len(conf.statuses) = PollBudget)
         => /\ conf.state \in {"Pending", "TimedOut"}
            /\ conf.state = "TimedOut" => ret = Throw("TimedOut")
    /\ AllNull(conf.statuses) => conf.state # "Confirmed"
    /\ (AllNull(conf.statuses) /\ conf.state = "Failed")
         => /\ conf.statuses = <<>>
            /\ \A i \in 1..Len(sent) : ~sent[i].answer.ok
    /\ conf.state = "TimedOut"
         => AllNull(conf.statuses) /\ Len(conf.statuses) = PollBudget
    /\ (conf.state = "Failed" /\ sent # <<>>
          /\ sent[Len(sent)].answer.ok)
         => /\ conf.statuses # <<>>
            /\ conf.statuses[Len(conf.statuses)] = "Err"
            /\ ret = Throw("Failed")

C14_Witness ==
  /\ Confirming
  /\ conf.state = "TimedOut"
  /\ conf.statuses = [i \in 1..PollBudget |-> "null"]
  /\ sent # <<>>
  /\ sent[Len(sent)].answer.ok
  /\ ret = Throw("TimedOut")

\* C15: every run of the loop ends in exactly one of Confirmed, Failed and
\* TimedOut: a transport error at the send step is retried at most
\* SendRetryLimit times before the run ends Failed, polling stops once the
\* budget is used up, an outcome reached is never replaced by another, and a
\* run that started reaches an outcome.
C15_LoopTerminates ==
  /\ [](Confirming =>
          /\ conf.state \in {"Submitting", "Pending"} \cup Terminal
          /\ Len(sent) <= SendRetryLimit + 1
          /\ Len(conf.statuses) <= PollBudget
          /\ conf.state \in {"Failed", "TimedOut"} <=> ~ret.ok
          /\ conf.state \in Terminal
               => /\ LoopOutcome(conf) \in ConfirmOutcomes
                  /\ ret = sendAndConfirmTransaction(LoopOutcome(conf))
          /\ (conf.state = "Failed" /\ conf.statuses = <<>>)
               => /\ Len(sent) = SendRetryLimit + 1
                  /\ \A i \in 1..Len(sent) : ~sent[i].answer.ok
          /\ \A i \in 1..(Len(sent) - 1) : ~sent[i].answer.ok)
  /\ [][conf.state \in Terminal => conf'.state = "Idle"]_vars
  /\ (conf.state \in {"Submitting", "Pending"}) ~> (conf.state \in Terminal)

C15_Witness ==
  /\ Confirming
  /\ conf.state = "Failed"
  /\ Len(sent) = SendRetryLimit + 1
  /\ \A i \in 1..Len(sent) : ~sent[i].answer.ok
  /\ ret = Throw("Failed")

\* The account read for a transfer has arrived and passes every validation
\* of accountInfo (it was read, the token program owns it, its state is 2, it
\* belongs to this token) and names the signer as its owner.
SourceReadValid ==
  /\ args.reads # <<>>
  /\ args.reads[1].ok
  /\ PublicKeyToBuffer(args.reads[1].value.owner) = PublicKeyToBuffer(args.self.programId)
  /\ RpcData[1] = 2
  /\ At(RpcData, 1, 32) = PublicKeyToBuffer(args.self.token)
  /\ At(RpcData, 33, 32) = PublicKeyToBuffer(args.owner)

\* C16: Token.transfer submits the Transfer transaction only if the source
\* account it read passed every validation and its decoded owner is the
\* signer; when a check fails, transfer throws and submits nothing.
C16_TransferChecksSource ==
  op = "transfer" =>
    /\ Len(sent) <= 1
    /\ sent # <<>> => SourceReadValid
    /\ (pc = "done" /\ ~SourceReadValid) =>
         /\ ~ret.ok
         /\ sent = <<>>
         /\ args.outcomes = <<>>
         /\ ret.error \notin Terminal
    /\ (SourceReadValid /\ Len(args.amount) <= 8) =>
         /\ Len(sent) = 1
         /\ sent[1].title = "transfer"
         /\ sent[1].data = TransferPayload(args.amount)

C16_Witness ==
  /\ Did("transfer")
  /\ args.reads[1].ok
  /\ PublicKeyToBuffer(args.reads[1].value.owner) = PublicKeyToBuffer(args.self.programId)
  /\ RpcData[1] = 2
  /\ At(RpcData, 1, 32) = PublicKeyToBuffer(args.self.token)
  /\ At(RpcData, 33, 32) # PublicKeyToBuffer(args.owner)
  /\ args.outcomes = <<>>
  /\ ret = Throw("Account owner mismatch")
  /\ sent = <<>>

\* Every outcome received so far is Confirmed.
AllConfirmed(outcomes) ==
  \A i \in 1..Len(outcomes) : outcomes[i].state = "Confirmed"

\* C17: Token.createNewToken submits, in this order, createAccount for the
\* initial holding account, its NewTokenAccount initialisation, createAccount
\* for the token account and NewToken; each only after the one before was
\* confirmed; once one fails or times out, none of the later ones is
\* submitted and no Token is returned.  (A call also ends early, with every
\* submitted transaction confirmed, when a rent request is rejected or the
\* supply does not fit 8 bytes.)
C17_CreateNewTokenInOrder ==
  op = "createNewToken" =>
    LET n == Len(sent)
        k == Len(args.outcomes)
    IN /\ n <= 4
       /\ k <= n
       /\ pc = "confirm" <=> k < n
       /\ k >= n - 1
       /\ \A i \in 1..(n - 1) : args.outcomes[i].state = "Confirmed"
       /\ \A i \in 1..k :
            args.outcomes[i].state # "Confirmed" =>
              /\ i = n
              /\ pc = "done"
              /\ ret = Throw(args.outcomes[i].state)
       /\ n >= 1 => /\ sent[1].kind = "createAccount"
                    /\ sent[1].newAccountPubkey = args.initialAccount
       /\ n >= 2 => /\ sent[2].kind = "instruction"
                    /\ sent[2].data = NewTokenAccountPayload
                    /\ sent[2].keys[1].pubkey = args.initialAccount
       /\ n >= 3 => /\ sent[3].kind = "createAccount"
                    /\ sent[3].newAccountPubkey = args.tokenAccount
       /\ n >= 4 => /\ sent[4].kind = "instruction"
                    /\ sent[4].data = NewTokenPayload(args.supply, args.decimals)
                    /\ sent[4].keys[1].pubkey = args.tokenAccount
       /\ pc = "done" =>
            /\ ret.ok <=> (n = 4 /\ k = 4 /\ AllConfirmed(args.outcomes))
            /\ ret.ok =>
                 /\ ret.value[1].token = args.tokenAccount
                 /\ ret.value[2] = args.initialAccount
            /\ (~ret.ok /\ AllConfirmed(args.outcomes)) =>
                 \/ n = 0 /\ args.rents = <<FALSE>>
                 \/ n = 2 /\ Len(args.supply) > 8
                 \/ n = 2 /\ args.rents = <<TRUE, FALSE>>

C17_Witness ==
  /\ Did("createNewToken")
  /\ Len(args.outcomes) = 3
  /\ args.outcomes[1].state = "Confirmed"
  /\ args.outcomes[2].state = "Confirmed"
  /\ args.outcomes[3].state = "TimedOut"
  /\ Len(args.supply) <= 8
  /\ Len(sent) = 3
  /\ sent[3].kind = "createAccount"
  /\ ret = Throw("TimedOut")

\* C18: the keys of a Transfer instruction are the owner (signer), the source
\* and the destination, in this order, and a fourth key if and only if the
\* source account read is a delegate account (its sourceOption is not 0): the
\* account the delegate draws on, as decoded from the account data.
C18_TransferKeys ==
  (Did("transferInstruction") /\ ret.ok) =>
    LET keys == ret.value.keys
        delegate == At(RpcData, 73, 8) # Zeros(8)
    IN /\ Len(keys) = IF delegate THEN 4 ELSE 3
       /\ keys[1] = Key(args.owner, TRUE, FALSE)
       /\ keys[2] = Key(args.source, FALSE, TRUE)
       /\ keys[3] = Key(args.destination, FALSE, TRUE)
       /\ Len(keys) = 4 =>
            /\ PublicKeyToBuffer(keys[4].pubkey) = At(RpcData, 81, 32)
            /\ ~keys[4].isSigner
            /\ keys[4].isWritable

C18_Witness ==
  /\ Did("transferInstruction")
  /\ ret.ok
  /\ At(RpcData, 73, 8) = <<0, 0, 0, 0, 0, 0, 0, 128>>
  /\ Len(ret.value.keys) = 4
  /\ ret.value.keys[4].pubkey = [i \in 1..32 |-> 1]
  /\ ret.value.keys[4].pubkey # args.source

\* C19: every createAccount transaction of createNewToken and newAccount
\* funds the new account with the rent-exempt minimum asked for the number
\* of bytes it allocates.
C19_RentForAllocatedSpace ==
  op \in {"createNewToken", "newAccount"} =>
    \A i \in 1..Len(sent) :
      sent[i].kind = "createAccount" =>
        sent[i].lamports = MinimumBalanceForRentExemption(sent[i].space, TRUE).value

====
